---- MODULE Spec2Model ----
(***************************************************************************)
(* The APS engine of NICE_APS: main.py and core/runner.py drive the steps  *)
(* DATA, MODEL, CONSTRAINTS, OBJECTIVE, SOLVE, REPORT over the             *)
(* preprocessed input, the variable registry, the three constraint         *)
(* builders, the CP-SAT solver and the result decoder.                     *)
(*                                                                         *)
(* Dates are day numbers (the date strings of the input, parsed); a        *)
(* production efficiency is an integer number of thousandths, so that      *)
(* int(base / efficiency) is (base * 1000) \div efficiency.                *)
(***************************************************************************)
EXTENDS Integers, Sequences, FiniteSets, TLC

VARIABLES
    entry,        \* how the program is entered: "script" or "pipeline"
    configFile,   \* config/settings.json: "ok", "missing", "malformed"
    dataFiles,    \* the two data files and run_config: "ok", "unreadable", "bad_base_date"
    settings,     \* the settings the run uses
    orders,       \* data.orders (eligible_factories is pruned in place)
    pc,           \* position of the driver
    steps,        \* the steps executed so far, in order
    failed,       \* the step that failed fatally, or "none"
    log,          \* the diagnostics logged (ERROR records and tracebacks)
    exitCode,     \* the exit status of the process, -1 while it runs
    x,            \* VariableDict: order_id -> sequence of [f, ps] entries
    model,        \* the constraints of the CP model
    solver,       \* the solver's status and solution
    out           \* what the decoder produced

vars == <<entry, configFile, dataFiles, settings, orders, pc, steps, failed,
          log, exitCode, x, model, solver, out>>

-----------------------------------------------------------------------------
(* Bounds of the input space *)

MaxPurchasingLT == 10
MaxWorkload == 2
SewCapacity == 5
OversizedWorkload == 7
MaxSlack == 1

(* Program constants *)

SCALING_FACTOR == 1000
horizon == 365
allowed_deviation == 30
\* the class weights of the tardiness rate and the weights of the JIT rate, in
\* tenths (0.7, 0.3, 0.3, 0.7), and the allowed deviations in days
firm_tardy_weight == 7
forecast_tardy_weight == 3
earliness_weight == 3
lateness_weight == 7
allowed_earliness_deviation == 30
allowed_tardiness_deviation == 30

NoDate == -1         \* the key period_start_date is absent (or None)
BadDate == -2        \* a date string strptime rejects
NoFactory == ""      \* the key factory_id is absent (or None)
Inf == 1000000       \* float('inf')

-----------------------------------------------------------------------------
(* Input data: load_data.py's Factory, CapacityPeriod, ProductionEfficiency *)

Tier(lo, hi, eff) == [min_quantity |-> lo, max_quantity |-> hi, efficiency |-> eff]

Period(s, e, caps) == [start_date |-> s, end_date |-> e, capacity_by_process |-> caps]

Factories ==
    << [factory_id |-> "F1", region |-> "CN",
        production_efficiencies |->
            [t \in {"shirt"} |->
                <<Tier(0, 999, 500), Tier(1000, 1999, 800), Tier(2000, 5000, 1000)>>],
        capacity_periods |->
            << Period(10, 19, ("sew" :> SewCapacity) @@ ("cut" :> 2)),
               Period(20, 29, ("sew" :> SewCapacity)) >>],
       [factory_id |-> "F2", region |-> "VN",
        production_efficiencies |-> <<>>,
        capacity_periods |->
            << Period(15, 24, ("sew" :> 3)) >>],
       [factory_id |-> "F3", region |-> "CN",
        production_efficiencies |-> <<>>,
        capacity_periods |->
            << Period(1, 9, ("sew" :> SewCapacity)),
               Period(31, 39, ("sew" :> SewCapacity)) >>] >>

Range(s) == {s[i] : i \in 1..Len(s)}

factory_map == [id \in {f.factory_id : f \in Range(Factories)} |->
                  CHOOSE f \in Range(Factories) : f.factory_id = id]

base_date == 0

NoLock == [factory_id |-> NoFactory, period_start_date |-> NoDate]

Lock(f, d) == [factory_id |-> f, period_start_date |-> d]

LockChoices ==
    { NoLock, Lock("F1", 12), Lock(NoFactory, 22), Lock("F2", 12),
      Lock("F1", NoDate), Lock("F9", 12), Lock(NoFactory, BadDate) }

EligibleChoices == { <<"F1", "F2">>, <<"F2">>, <<>>, <<"F9", "F1">> }

TransportAll == ("CN" :> 3) @@ ("VN" :> 3)

\* [purchasing lead time, transport lead times by region]
LeadChoices ==
    { <<0, TransportAll>>, <<MaxPurchasingLT, TransportAll>>, <<0, ("CN" :> 3)>> }

\* [quantity, total_process_capacity]
SizeChoices ==
    { <<800, ("sew" :> MaxWorkload)>>,
      <<2000, ("sew" :> 1)>>,
      <<1500, ("sew" :> MaxWorkload) @@ ("cut" :> MaxWorkload)>> }

MakeOrder(id, type, due, elig, lock, lead, size) ==
    [order_id |-> id, product_type |-> "shirt", quantity |-> size[1],
     due_date |-> due, material_purchasing_lead_time |-> lead[1],
     material_transportation_to_region_lead_time |-> lead[2],
     production_lead_time |-> 2, total_process_capacity |-> size[2],
     eligible_factories |-> elig, order_type |-> type,
     fixed_assignment |-> lock]

FirstOrderInputs ==
    { MakeOrder("O1", 1, 24, e, l, t, s) :
        e \in EligibleChoices, l \in LockChoices, t \in LeadChoices, s \in SizeChoices }

SecondOrderInputs ==
    { MakeOrder("O2", 0, 19, e, NoLock, <<0, TransportAll>>, s) :
        e \in { <<"F1", "F2">>, <<"F1">> },
        s \in { <<800, ("sew" :> MaxWorkload)>>, <<2000, ("sew" :> 1)>> } }

\* a second order that repeats the first order's order_id
DuplicateOrderInputs ==
    { MakeOrder("O1", 0, 19, <<"F1">>, NoLock, <<0, TransportAll>>, <<800, ("sew" :> MaxWorkload)>>) }

\* the first orders that are paired with a duplicate
DuplicatedFirstOrders ==
    { MakeOrder("O1", 1, 24, e, NoLock, <<0, TransportAll>>, <<2000, ("sew" :> 1)>>) :
        e \in { <<"F1", "F2">>, <<"F2">>, <<>> } }

\* an order that needs no process: total_process_capacity is empty
NoProcessOrders ==
    { MakeOrder("O1", 1, 24, e, NoLock, <<0, TransportAll>>, <<2000, <<>>>>) :
        e \in { <<"F9", "F1">>, <<"F2", "F1">> } }

\* an order whose workload is more than twice the total capacity of the one
\* period of F2
OversizedOrders ==
    { MakeOrder("O1", 1, 24, e, NoLock, <<0, TransportAll>>,
                <<2000, ("sew" :> OversizedWorkload)>>) :
        e \in { <<"F1", "F2">>, <<"F2">> } }

HasDuplicateIds(os) ==
    \E i, j \in 1..Len(os) : i # j /\ os[i].order_id = os[j].order_id

DefaultOrder ==
    MakeOrder("O1", 1, 24, <<"F1", "F2">>, NoLock, <<0, TransportAll>>, <<2000, ("sew" :> 1)>>)

ConstraintNames == {"order_unique_assign", "capacity", "material_lead_time"}

ActiveChoices ==
    { <<>>, <<"capacity">>, <<"material_lead_time">>,
      <<"order_unique_assign", "capacity">>,
      <<"order_unique_assign", "material_lead_time">>,
      <<"capacity", "material_lead_time">>,
      <<"order_unique_assign", "capacity", "material_lead_time">>,
      <<"order_unique_assign", "no_such_constraint">> }

\* objective_weights: which of tardiness, jit_deviation, workload_balance are positive
WeightChoices ==
    { [tardiness |-> 0, jit_deviation |-> 0, workload_balance |-> 0],
      [tardiness |-> 5, jit_deviation |-> 3, workload_balance |-> 2],
      [tardiness |-> 5, jit_deviation |-> 0, workload_balance |-> 0],
      [tardiness |-> 0, jit_deviation |-> 3, workload_balance |-> 2] }

-----------------------------------------------------------------------------
(* core/process_data.py *)

RECURSIVE SumFn(_, _)
SumFn(f, keys) ==
    IF keys = {} THEN 0
    ELSE LET k == CHOOSE k \in keys : TRUE IN f[k] + SumFn(f, keys \ {k})

RECURSIVE FirstTier(_, _)
FirstTier(tiers, q) ==
    IF tiers = <<>> THEN 1000
    ELSE IF Head(tiers).min_quantity <= q /\ q <= Head(tiers).max_quantity
         THEN Head(tiers).efficiency
         ELSE FirstTier(Tail(tiers), q)

get_efficiency_for_order(order, factory) ==
    IF order.product_type \notin DOMAIN factory.production_efficiencies
    THEN 1000
    ELSE FirstTier(factory.production_efficiencies[order.product_type], order.quantity)

\* int(base_workload / efficiency)
ActualWorkload(base_workload, efficiency) == (base_workload * 1000) \div efficiency

factory_total_capacity_by_period(fid, start) ==
    LET f == factory_map[fid]
        p == CHOOSE p \in Range(f.capacity_periods) : p.start_date = start
    IN SumFn(p.capacity_by_process, DOMAIN p.capacity_by_process)

order_total_base_workload(order) ==
    SumFn(order.total_process_capacity, DOMAIN order.total_process_capacity)

factory_processes(f) ==
    UNION { DOMAIN p.capacity_by_process : p \in Range(f.capacity_periods) }

KeepsFactory(order, fid) ==
    /\ fid \in DOMAIN factory_map
    /\ DOMAIN order.total_process_capacity \subseteq factory_processes(factory_map[fid])

validate_data_integrity(order) ==
    IF DOMAIN order.total_process_capacity = {}
    THEN order
    ELSE [order EXCEPT !.eligible_factories =
             SelectSeq(order.eligible_factories, LAMBDA fid : KeepsFactory(order, fid))]

process_data(os) == [i \in 1..Len(os) |-> validate_data_integrity(os[i])]

\* {o.order_id: o for o in orders}: of two orders with one id the later stays
order_map(os, id) ==
    os[CHOOSE i \in 1..Len(os) :
          /\ os[i].order_id = id
          /\ \A j \in (i + 1)..Len(os) : os[j].order_id # id]

-----------------------------------------------------------------------------
(* core/variable_registry.py *)

\* a registry that only accepts a lock date that is a period's start date
RECURSIVE FirstPeriodStartingAt(_, _)
FirstPeriodStartingAt(periods, d) ==
    IF periods = <<>> THEN NoDate
    ELSE IF Head(periods).start_date = d
         THEN Head(periods).start_date
         ELSE FirstPeriodStartingAt(Tail(periods), d)

RECURSIVE FirstPeriodWith(_, _)
FirstPeriodWith(periods, d) ==
    IF periods = <<>> THEN NoDate
    ELSE IF Head(periods).start_date <= d /\ d <= Head(periods).end_date
         THEN Head(periods).start_date
         ELSE FirstPeriodWith(Tail(periods), d)

RECURSIVE find_snapped_period_start_date(_, _)
find_snapped_period_start_date(locked_date, factories_to_check) ==
    IF locked_date = BadDate \/ factories_to_check = <<>> THEN NoDate
    ELSE LET hit == FirstPeriodWith(Head(factories_to_check).capacity_periods, locked_date)
         IN IF hit # NoDate THEN hit
            ELSE find_snapped_period_start_date(locked_date, Tail(factories_to_check))

StartDates(periods) == [i \in 1..Len(periods) |-> periods[i].start_date]

EligibleInMap(order) ==
    LET ids == SelectSeq(order.eligible_factories, LAMBDA fid : fid \in DOMAIN factory_map)
    IN [i \in 1..Len(ids) |-> factory_map[ids[i]]]

\* the lock names a factory that factory_map does not hold: KeyError
LockKeyError(order) ==
    /\ order.fixed_assignment # NoLock
    /\ order.fixed_assignment.factory_id # NoFactory
    /\ order.fixed_assignment.factory_id \notin DOMAIN factory_map

LockFactories(order) ==
    IF order.fixed_assignment.factory_id # NoFactory
    THEN << factory_map[order.fixed_assignment.factory_id] >>
    ELSE EligibleInMap(order)

SnappedDate(order) ==
    IF order.fixed_assignment.period_start_date = NoDate THEN NoDate
    ELSE find_snapped_period_start_date(order.fixed_assignment.period_start_date,
                                        LockFactories(order))

\* the lock gives a date that no period holds (or that does not parse): skipped
LockSkipped(order) ==
    /\ order.fixed_assignment # NoLock
    /\ order.fixed_assignment.period_start_date # NoDate
    /\ SnappedDate(order) = NoDate

\* x[order_id]: one entry per factory, in insertion order, with its period keys
OrderEntries(order) ==
    IF order.fixed_assignment = NoLock
    THEN LET fs == EligibleInMap(order)
         IN [i \in 1..Len(fs) |->
               [f |-> fs[i].factory_id, ps |-> StartDates(fs[i].capacity_periods)]]
    ELSE IF LockSkipped(order) THEN <<>>
    ELSE LET fs == LockFactories(order)
             snapped == SnappedDate(order)
         IN [i \in 1..Len(fs) |->
               [f |-> fs[i].factory_id,
                ps |-> IF snapped # NoDate
                       THEN SelectSeq(StartDates(fs[i].capacity_periods),
                                      LAMBDA s : s = snapped)
                       ELSE StartDates(fs[i].capacity_periods)]]

\* the decision variables of one order, each named by (order, factory, period start)
VarsOf(entries, oid) ==
    UNION { { <<oid, entries[i].f, entries[i].ps[j]>> : j \in 1..Len(entries[i].ps) } :
              i \in 1..Len(entries) }

\* a registry in which a lock date that cannot be snapped is an error too
create_variables_raises_on_skip(os) ==
    \E o \in Range(os) : LockKeyError(o) \/ LockSkipped(o)

\* create_variables raises when a lock names an unknown factory
create_variables_raises(os) == \E o \in Range(os) : LockKeyError(o)

create_variables(os) ==
    [id \in {o.order_id : o \in Range(os)} |-> OrderEntries(order_map(os, id))]

\* model.Add(variable == 1): a lock with both a factory and a snapped date
LockedOnes(os) ==
    UNION { IF /\ o.fixed_assignment # NoLock
               /\ o.fixed_assignment.factory_id # NoFactory
               /\ SnappedDate(o) # NoDate
            THEN VarsOf(OrderEntries(o), o.order_id)
            ELSE {} : o \in Range(os) }

AllVars(xs) == UNION { VarsOf(xs[id], id) : id \in DOMAIN xs }

-----------------------------------------------------------------------------
(* constraints/*.py *)

\* a builder that collects the variables per (order, factory) instead of per order
add_unique_per_factory(os, xs) ==
    UNION { { VarsOf(<<xs[o.order_id][i]>>, o.order_id) : i \in 1..Len(xs[o.order_id]) } :
              o \in Range(os) } \ {{}}

\* a builder that calls AddExactlyOne for every order, with or without variables
add_exactly_one_always(os, xs) ==
    { VarsOf(xs[o.order_id], o.order_id) : o \in Range(os) }

\* AddExactlyOne over the variables of each order that has any
add_order_unique_assign_constraint(os, xs) ==
    { VarsOf(xs[o.order_id], o.order_id) :
        o \in { o \in Range(os) : VarsOf(xs[o.order_id], o.order_id) # {} } }

\* capacity terms that take the base workload, not adjusted by the efficiency
CapacityTermsBase(os, xs, f, p, proc) ==
    { << <<os[i].order_id, f.factory_id, p.start_date>>,
         os[i].total_process_capacity[proc], i >> :
        i \in { i \in 1..Len(os) :
                  /\ proc \in DOMAIN os[i].total_process_capacity
                  /\ <<os[i].order_id, f.factory_id, p.start_date>> \in AllVars(xs) } }

\* the terms actual_workload * var of one (factory, period, process): one term
\* <<var, actual_workload, i>> per order i of data.orders that needs the process
\* and has a variable there
CapacityTerms(os, xs, f, p, proc) ==
    { << <<os[i].order_id, f.factory_id, p.start_date>>,
         ActualWorkload(os[i].total_process_capacity[proc],
                        get_efficiency_for_order(os[i], f)), i >> :
        i \in { i \in 1..Len(os) :
                  /\ proc \in DOMAIN os[i].total_process_capacity
                  /\ <<os[i].order_id, f.factory_id, p.start_date>> \in AllVars(xs) } }

\* one constraint sum(terms) <= capacity per (factory, period, process) with terms
add_capacity_constraint(os, xs) ==
    LET all == UNION { UNION { { [f |-> f.factory_id, p |-> p.start_date, proc |-> proc,
                                  terms |-> CapacityTerms(os, xs, f, p, proc),
                                  cap |-> p.capacity_by_process[proc]] :
                                    proc \in DOMAIN p.capacity_by_process } :
                                 p \in Range(f.capacity_periods) } :
                         f \in Range(Factories) }
    IN { c \in all : c.terms # {} }

TransportLT(order, factory) ==
    IF factory.region \in DOMAIN order.material_transportation_to_region_lead_time
    THEN order.material_transportation_to_region_lead_time[factory.region]
    ELSE Inf

total_lt_days(order, factory) ==
    order.material_purchasing_lead_time + TransportLT(order, factory)
        + order.production_lead_time

\* timedelta(days=float('inf')) raises OverflowError
add_material_lead_time_raises(os, xs) ==
    \E id \in DOMAIN xs : \E i \in 1..Len(xs[id]) :
        total_lt_days(order_map(os, id), factory_map[xs[id][i].f]) >= Inf

\* a builder that also zeroes a period starting on the earliest start date
add_material_lead_time_inclusive(os, xs) ==
    { v \in AllVars(xs) :
        v[3] <= base_date + total_lt_days(order_map(os, v[1]), factory_map[v[2]]) }

\* a builder that leaves the purchasing lead time out of the earliest start
add_material_lead_time_no_purchasing(os, xs) ==
    { v \in AllVars(xs) :
        v[3] < base_date + total_lt_days(order_map(os, v[1]), factory_map[v[2]])
                   - order_map(os, v[1]).material_purchasing_lead_time }

\* model.Add(var == 0) for every variable whose period starts too early
add_material_lead_time_constraint(os, xs) ==
    { v \in AllVars(xs) :
        v[3] < base_date + total_lt_days(order_map(os, v[1]), factory_map[v[2]]) }

\* a CpModel: the constraints on the decision variables (ones, exactly_one,
\* capacity, zeros), what the objective builders add (their auxiliary
\* variables aux and their constraints tardy, jit, jit_zero, balance) and the
\* terms of the expression handed to Minimize; builders lists the constraint
\* builders in the order they were called
EmptyModel ==
    [ones |-> {}, exactly_one |-> {}, capacity |-> {}, zeros |-> {},
     aux |-> {}, tardy |-> {}, jit |-> {}, jit_zero |-> {}, balance |-> {},
     objective |-> {}, builders |-> <<>>]

\* CONSTRAINT_MAP.get(name) applied to the model; unknown names are skipped
ApplyConstraint(m, name, os, xs) ==
    CASE name = "order_unique_assign" ->
           [m EXCEPT !.exactly_one = @ \cup add_order_unique_assign_constraint(os, xs),
                     !.builders = Append(@, name)]
      [] name = "capacity" ->
           [m EXCEPT !.capacity = @ \cup add_capacity_constraint(os, xs),
                     !.builders = Append(@, name)]
      [] name = "material_lead_time" ->
           [m EXCEPT !.zeros = @ \cup add_material_lead_time_constraint(os, xs),
                     !.builders = Append(@, name)]
      [] OTHER -> m

ConstraintRaises(name, os, xs) ==
    name = "material_lead_time" /\ add_material_lead_time_raises(os, xs)

\* _add_constraints: the builders in the configured order, up to the first that raises
RECURSIVE add_constraints(_, _, _, _)
add_constraints(m, names, os, xs) ==
    IF names = <<>> THEN [model |-> m, raised |-> FALSE]
    ELSE IF ConstraintRaises(Head(names), os, xs) THEN [model |-> m, raised |-> TRUE]
    ELSE add_constraints(ApplyConstraint(m, Head(names), os, xs), Tail(names), os, xs)

-----------------------------------------------------------------------------
(* objectives/*.py: the constraints the objective builders add *)

period_end_date(fid, start) ==
    (CHOOSE p \in Range(factory_map[fid].capacity_periods) : p.start_date = start).end_date

\* a builder that takes the start date of a period as the completion date
add_jit_deviation_by_start(os, xs) ==
    { [terms |-> { <<v, v[3] - base_date>> :
                     v \in VarsOf(xs[o.order_id], o.order_id) },
       due |-> o.due_date - base_date] :
        o \in { o \in Range(os) : VarsOf(xs[o.order_id], o.order_id) # {} } }

\* planned_completion_days - due_date_days == tardiness_var - earliness_var,
\* one per order that has variables
add_jit_deviation_objective(os, xs) ==
    { [terms |-> { <<v, period_end_date(v[2], v[3]) - base_date>> :
                     v \in VarsOf(xs[o.order_id], o.order_id) },
       due |-> o.due_date - base_date] :
        o \in { o \in Range(os) : VarsOf(xs[o.order_id], o.order_id) # {} } }

\* one term <<var, actual_workload, i>> per order i of data.orders with a
\* variable at (factory, period); the base workload is looked up by order_id
BalanceTerms(os, xs, fid, start) ==
    { << <<os[i].order_id, fid, start>>,
         ActualWorkload(order_total_base_workload(order_map(os, os[i].order_id)),
                        get_efficiency_for_order(os[i], factory_map[fid])), i >> :
        i \in { i \in 1..Len(os) : <<os[i].order_id, fid, start>> \in AllVars(xs) } }

\* max_load_ratio_scaled * capacity >= workload * SCALING_FACTOR,
\* one per (factory, period) of positive capacity that has variables
add_workload_balance_objective(os, xs) ==
    LET all == UNION { { [f |-> f.factory_id, p |-> p.start_date,
                          terms |-> BalanceTerms(os, xs, f.factory_id, p.start_date),
                          cap |-> factory_total_capacity_by_period(f.factory_id, p.start_date)] :
                            p \in Range(f.capacity_periods) } :
                         f \in Range(Factories) }
    IN { c \in all : c.cap # 0 /\ c.terms # {} }

\* a builder that also counts a period ending on the due date as late
add_tardiness_penalty_inclusive(os, xs) ==
    UNION { { <<i, v>> : v \in { v \in VarsOf(xs[os[i].order_id], os[i].order_id) :
                                   period_end_date(v[2], v[3]) >= os[i].due_date } } :
              i \in 1..Len(os) }

\* is_tardy_var >= var for every variable of order i whose period ends after
\* the order's due date
add_tardiness_penalty_objective(os, xs) ==
    UNION { { <<i, v>> : v \in { v \in VarsOf(xs[os[i].order_id], os[i].order_id) :
                                   period_end_date(v[2], v[3]) > os[i].due_date } } :
              i \in 1..Len(os) }

\* the orders without any variable: earliness_var == 0 and tardiness_var == 0
JitZero(os, xs) ==
    { i \in 1..Len(os) : VarsOf(xs[os[i].order_id], os[i].order_id) = {} }

\* the auxiliary variables each builder creates
TardinessAux(os) == { <<"is_tardy", os[i].order_id, 0>> : i \in 1..Len(os) }

JitAux(os) ==
    { <<n, os[i].order_id, 0>> : n \in {"earliness_days", "tardiness_days"}, i \in 1..Len(os) }
        \cup { <<"max_earliness_days", "", 0>>, <<"max_tardiness_days", "", 0>> }

BalanceAux(os, xs) ==
    { <<"max_load_ratio_scaled", "", 0>>, <<"min_load_ratio_scaled", "", 0>> }
        \cup { <<"is_used", c.f, c.p>> : c \in add_workload_balance_objective(os, xs) }

\* a gate that also lets a weight of zero through
WeightNotNegative(w) == w >= 0

\* if w > 0: the gate in front of each sub-objective builder
WeightPositive(w) == w > 0

\* one term of the sum handed to Minimize: weight * rate / divisor
ObjectiveTerm(name, w, d) == [name |-> name, weight |-> w, divisor |-> d]

\* set_combined_objective: a builder runs only when its weight is positive; the
\* tardiness term is multiplied by 1 / total_orders, the JIT term by
\* 1 / (allowed_deviation * total_orders), the balance term by 1 / SCALING_FACTOR
set_combined_objective(m, weights, os, xs) ==
    LET total_orders == Len(os)
        w_tardy == WeightPositive(weights.tardiness)
        w_jit == WeightPositive(weights.jit_deviation)
        w_balance == WeightPositive(weights.workload_balance)
    IN IF total_orders = 0 THEN m
       ELSE [m EXCEPT
               !.aux = (IF w_tardy THEN TardinessAux(os) ELSE {})
                          \cup (IF w_jit THEN JitAux(os) ELSE {})
                          \cup (IF w_balance THEN BalanceAux(os, xs) ELSE {}),
               !.tardy = IF w_tardy THEN add_tardiness_penalty_objective(os, xs) ELSE {},
               !.jit = IF w_jit THEN add_jit_deviation_objective(os, xs) ELSE {},
               !.jit_zero = IF w_jit THEN JitZero(os, xs) ELSE {},
               !.balance = IF w_balance
                           THEN add_workload_balance_objective(os, xs) ELSE {},
               !.objective =
                   (IF w_tardy
                    THEN {ObjectiveTerm("tardiness", weights.tardiness, total_orders)}
                    ELSE {})
                   \cup (IF w_jit
                         THEN {ObjectiveTerm("jit_deviation", weights.jit_deviation,
                                             allowed_deviation * total_orders)}
                         ELSE {})
                   \cup (IF w_balance
                         THEN {ObjectiveTerm("workload_balance", weights.workload_balance,
                                             SCALING_FACTOR)}
                         ELSE {})]

-----------------------------------------------------------------------------
(* core/solver.py: CP-SAT on the model. A solution is the set of decision *)
(* variables with value 1.                                                 *)

RECURSIVE SumTerms(_, _)
SumTerms(terms, sol) ==
    IF terms = {} THEN 0
    ELSE LET t == CHOOSE t \in terms : TRUE
         IN (IF t[1] \in sol THEN t[2] ELSE 0) + SumTerms(terms \ {t}, sol)

Abs(n) == IF n < 0 THEN -n ELSE n

\* the assignment satisfies every constraint of the model; the auxiliary
\* variables of the objective builders exist iff the last two conjuncts hold
\* (earliness and tardiness lie in 0..horizon, max_load_ratio_scaled in
\* 0..2 * SCALING_FACTOR)
Satisfies(m, sol) ==
    /\ m.ones \subseteq sol
    /\ m.zeros \cap sol = {}
    /\ \A vs \in m.exactly_one : Cardinality(vs \cap sol) = 1
    /\ \A c \in m.capacity : SumTerms(c.terms, sol) <= c.cap
    /\ \A j \in m.jit : Abs(SumTerms(j.terms, sol) - j.due) <= horizon
    /\ \A b \in m.balance :
          SumTerms(b.terms, sol) * SCALING_FACTOR <= 2 * SCALING_FACTOR * b.cap

Solutions(m, xs) == { sol \in SUBSET AllVars(xs) : Satisfies(m, sol) }

Statuses == {"OPTIMAL", "FEASIBLE", "INFEASIBLE", "MODEL_INVALID", "UNKNOWN"}

\* what SATSolver.solve can return: a solution with OPTIMAL (no objective: any
\* solution is optimal) or FEASIBLE (an objective and the time limit: any
\* solution), INFEASIBLE when there is none, UNKNOWN when the time limit ends
\* the search, MODEL_INVALID when the solver rejects the model
SolveOutcome(m, xs, status, sol) ==
    CASE status = "OPTIMAL" -> Satisfies(m, sol) /\ m.objective = {}
      [] status = "FEASIBLE" -> Satisfies(m, sol) /\ m.objective # {}
      [] status = "INFEASIBLE" -> sol = {} /\ Solutions(m, xs) = {}
      [] OTHER -> sol = {}

-----------------------------------------------------------------------------
(* core/store_result.py *)

\* a gate that lets every status but the two error statuses through
NotAnErrorStatus(status) == status \notin {"INFEASIBLE", "MODEL_INVALID"}

AcceptedStatus(status) == status \in {"OPTIMAL", "FEASIBLE"}

\* the variables of one order in the order the decoder walks them
RECURSIVE FlatVars(_, _)
FlatVars(entries, oid) ==
    IF entries = <<>> THEN <<>>
    ELSE [j \in 1..Len(Head(entries).ps) |-> <<oid, Head(entries).f, Head(entries).ps[j]>>]
            \o FlatVars(Tail(entries), oid)

\* the variables read up to and including the first with value 1
RECURSIVE ReadUntilOne(_, _)
ReadUntilOne(vs, sol) ==
    IF vs = <<>> THEN <<>>
    ELSE IF Head(vs) \in sol THEN <<Head(vs)>>
    ELSE <<Head(vs)>> \o ReadUntilOne(Tail(vs), sol)

\* the decoder with is_tardy = completion >= due date
ScheduleResultItemInclusive(order, v) ==
    LET completion == period_end_date(v[2], v[3])
        is_tardy == completion >= order.due_date
        material_ready == v[3] - order.production_lead_time
        region == factory_map[v[2]].region
        transport_lt ==
            IF region \in DOMAIN order.material_transportation_to_region_lead_time
            THEN order.material_transportation_to_region_lead_time[region] ELSE 0
    IN [order_id |-> order.order_id,
        assigned_factory_id |-> v[2],
        assigned_period_start |-> v[3],
        assigned_period_end |-> completion,
        is_tardy |-> is_tardy,
        days_tardy |-> IF is_tardy THEN completion - order.due_date ELSE 0,
        material_ready_date |-> material_ready,
        latest_confirmation_date |->
            material_ready - (order.material_purchasing_lead_time + transport_lt)]

ScheduleResultItem(order, v) ==
    LET completion == period_end_date(v[2], v[3])
        is_tardy == completion > order.due_date
        material_ready == v[3] - order.production_lead_time
        region == factory_map[v[2]].region
        transport_lt ==
            IF region \in DOMAIN order.material_transportation_to_region_lead_time
            THEN order.material_transportation_to_region_lead_time[region] ELSE 0
    IN [order_id |-> order.order_id,
        assigned_factory_id |-> v[2],
        assigned_period_start |-> v[3],
        assigned_period_end |-> completion,
        is_tardy |-> is_tardy,
        days_tardy |-> IF is_tardy THEN completion - order.due_date ELSE 0,
        material_ready_date |-> material_ready,
        latest_confirmation_date |->
            material_ready - (order.material_purchasing_lead_time + transport_lt)]

\* one row per key of variables (in the order the keys were first inserted)
\* whose walk finds a variable with value 1 (then break)
RECURSIVE ScheduleResults(_, _, _, _)
ScheduleResults(os, i, xs, sol) ==
    IF i > Len(os) THEN <<>>
    ELSE LET read == ReadUntilOne(FlatVars(xs[os[i].order_id], os[i].order_id), sol)
             first_key == \A j \in 1..(i - 1) : os[j].order_id # os[i].order_id
         IN (IF first_key /\ read # <<>> /\ read[Len(read)] \in sol
             THEN << ScheduleResultItem(order_map(os, os[i].order_id), read[Len(read)]) >>
             ELSE <<>>)
               \o ScheduleResults(os, i + 1, xs, sol)

ValuesRead(os, xs, sol) ==
    UNION { Range(ReadUntilOne(FlatVars(xs[o.order_id], o.order_id), sol)) : o \in Range(os) }

RECURSIVE AssignedWorkload(_, _, _, _)
AssignedWorkload(rows, os, fid, start) ==
    IF rows = <<>> THEN 0
    ELSE (IF Head(rows).assigned_factory_id = fid /\ Head(rows).assigned_period_start = start
          THEN ActualWorkload(order_total_base_workload(order_map(os, Head(rows).order_id)),
                              get_efficiency_for_order(order_map(os, Head(rows).order_id),
                                                       factory_map[fid]))
          ELSE 0) + AssignedWorkload(Tail(rows), os, fid, start)

PeriodKeys ==
    UNION { { <<f.factory_id, p.start_date>> : p \in Range(f.capacity_periods) } :
              f \in Range(Factories) }

\* calculate_and_log_kpis: assigned workload and total capacity per (factory, period)
calculate_and_log_kpis(rows, os) ==
    [k \in PeriodKeys |->
        [assigned_workload |-> AssignedWorkload(rows, os, k[1], k[2]),
         total_capacity |-> factory_total_capacity_by_period(k[1], k[2])]]

NoOutput ==
    [decoded |-> FALSE, rows |-> <<>>, reads |-> {}, kpi_computed |-> FALSE,
     kpi |-> <<>>, csv |-> <<>>]

process_and_log_results(status, sol, os, xs, csv_path) ==
    IF ~AcceptedStatus(status)
    THEN [NoOutput EXCEPT !.decoded = TRUE]
    ELSE LET rows == ScheduleResults(os, 1, xs, sol)
         IN [decoded |-> TRUE, rows |-> rows, reads |-> ValuesRead(os, xs, sol),
             kpi_computed |-> TRUE, kpi |-> calculate_and_log_kpis(rows, os),
             csv |-> IF csv_path THEN rows ELSE <<>>]

-----------------------------------------------------------------------------
(* main.py and core/runner.py.                                             *)
(* Entered as a script, main.py first imports core.runner, whose own       *)
(* imports are resolved against the names the imported modules define.     *)
(* Entered as a pipeline, the run starts at the body of main() with        *)
(* _process_results calling the decoder that core/store_result.py defines. *)

\* the top-level names core/store_result.py defines
StoreResultNames ==
    {"ScheduleResultItem", "calculate_and_log_kpis", "save_results_to_csv",
     "process_and_log_results"}

\* from .store_result import process_and_save_results
RunnerImportsDecoder == "process_and_save_results"

DefaultSettings ==
    [active_constraints |-> <<"order_unique_assign", "capacity", "material_lead_time">>,
     objective_weights |-> [tardiness |-> 0, jit_deviation |-> 0, workload_balance |-> 0],
     csv_result_path |-> TRUE]

NotRun == [status |-> "NOT_RUN", sol |-> {}]

Init ==
    /\ entry \in {"script", "pipeline"}
    /\ configFile \in {"ok", "missing", "malformed"}
    /\ dataFiles \in {"ok", "unreadable", "bad_base_date"}
    /\ settings \in [active_constraints : ActiveChoices,
                     objective_weights : WeightChoices,
                     csv_result_path : {TRUE}]
    /\ \/ \E o1 \in FirstOrderInputs :
            \E rest \in {<<>>} \cup { <<o2>> : o2 \in SecondOrderInputs } :
               orders = <<o1>> \o rest
       \/ \E o1 \in DuplicatedFirstOrders : \E o2 \in DuplicateOrderInputs :
            orders = <<o1, o2>>
       \/ \E o1 \in NoProcessOrders \cup OversizedOrders : orders = <<o1>>
    /\ (entry = "script" \/ configFile # "ok" \/ dataFiles # "ok")
          => (orders = <<DefaultOrder>> /\ settings = DefaultSettings)
    /\ pc = IF entry = "script" THEN "load" ELSE "main"
    /\ steps = <<>>
    /\ failed = "none"
    /\ log = <<>>
    /\ exitCode = -1
    /\ x = <<>>
    /\ model = EmptyModel
    /\ solver = NotRun
    /\ out = NoOutput

\* main.py line 5: import core.runner, which imports its decoder by name
LoadModules ==
    /\ pc = "load"
    /\ IF RunnerImportsDecoder \in StoreResultNames
       THEN /\ pc' = "main"
            /\ UNCHANGED <<log, exitCode>>
       ELSE /\ pc' = "exited"
            /\ log' = Append(log, "Traceback: ImportError")
            /\ exitCode' = 1
    /\ UNCHANGED <<entry, configFile, dataFiles, settings, orders, steps, failed,
                   x, model, solver, out>>

\* main(): read config/settings.json, then APSRunner(settings).run()
Main ==
    /\ pc = "main"
    /\ CASE configFile = "missing" ->
              /\ pc' = "exited"
              /\ log' = Append(log, "ERROR: settings file not found")
              /\ exitCode' = 0
         [] configFile = "malformed" ->
              /\ pc' = "exited"
              /\ log' = Append(log, "Traceback: JSONDecodeError")
              /\ exitCode' = 1
         [] OTHER ->
              /\ pc' = "data"
              /\ UNCHANGED <<log, exitCode>>
    /\ UNCHANGED <<entry, configFile, dataFiles, settings, orders, steps, failed,
                   x, model, solver, out>>

\* a driver that logs the failure of the data pipeline and goes on
DataPipelineNoReturn ==
    /\ pc = "data"
    /\ steps' = Append(steps, "DATA")
    /\ IF dataFiles # "ok"
       THEN /\ failed' = "DATA"
            /\ log' = log \o <<"ERROR: data pipeline raised", "ERROR: data failed, run ends">>
            /\ UNCHANGED orders
       ELSE /\ orders' = process_data(orders)
            /\ UNCHANGED <<failed, log>>
    /\ pc' = "model"
    /\ UNCHANGED <<entry, configFile, dataFiles, settings, exitCode, x, model, solver, out>>

\* run() step 1, _data_pipeline: load_and_structure_data and process_data
DataPipeline ==
    /\ pc = "data"
    /\ steps' = Append(steps, "DATA")
    /\ IF dataFiles # "ok"
       THEN /\ failed' = "DATA"
            /\ log' = log \o <<"ERROR: data pipeline raised", "ERROR: data failed, run ends">>
            /\ pc' = "exited"
            /\ exitCode' = 0
            /\ UNCHANGED orders
       ELSE /\ orders' = process_data(orders)
            /\ pc' = "model"
            /\ UNCHANGED <<failed, log, exitCode>>
    /\ UNCHANGED <<entry, configFile, dataFiles, settings, x, model, solver, out>>

Reverse(q) == [k \in 1..Len(q) |-> q[Len(q) + 1 - k]]

\* a registry that walks the factories of an order in no fixed order
InitializeModelUnordered ==
    /\ pc = "model"
    /\ steps' = Append(steps, "MODEL")
    /\ IF create_variables_raises(orders)
       THEN /\ failed' = "MODEL"
            /\ log' = log \o <<"ERROR: variable creation raised", "ERROR: model failed, run ends">>
            /\ pc' = "exited"
            /\ exitCode' = 0
            /\ UNCHANGED <<x, model>>
       ELSE /\ \E rev \in SUBSET DOMAIN create_variables(orders) :
                  x' = [id \in DOMAIN create_variables(orders) |->
                          IF id \in rev THEN Reverse(create_variables(orders)[id])
                          ELSE create_variables(orders)[id]]
            /\ model' = [model EXCEPT !.ones = LockedOnes(orders)]
            /\ pc' = "constraints"
            /\ UNCHANGED <<failed, log, exitCode>>
    /\ UNCHANGED <<entry, configFile, dataFiles, settings, orders, solver, out>>

\* run() step 2, _initialize_model: SATSolver, get_model, create_variables
InitializeModel ==
    /\ pc = "model"
    /\ steps' = Append(steps, "MODEL")
    /\ IF create_variables_raises(orders)
       THEN /\ failed' = "MODEL"
            /\ log' = log \o <<"ERROR: variable creation raised", "ERROR: model failed, run ends">>
            /\ pc' = "exited"
            /\ exitCode' = 0
            /\ UNCHANGED <<x, model>>
       ELSE /\ x' = create_variables(orders)
            /\ model' = [model EXCEPT !.ones = LockedOnes(orders)]
            /\ pc' = "constraints"
            /\ UNCHANGED <<failed, log, exitCode>>
    /\ UNCHANGED <<entry, configFile, dataFiles, settings, orders, solver, out>>

\* run() step 3, _add_constraints; an exception leaves run() and is logged by main()
AddConstraints ==
    /\ pc = "constraints"
    /\ steps' = Append(steps, "CONSTRAINTS")
    /\ LET r == add_constraints(model, settings.active_constraints, orders, x)
       IN /\ model' = r.model
          /\ IF r.raised
             THEN /\ failed' = "CONSTRAINTS"
                  /\ log' = Append(log, "ERROR: uncaught exception in APSRunner")
                  /\ pc' = "exited"
                  /\ exitCode' = 0
             ELSE /\ pc' = "objective"
                  /\ UNCHANGED <<failed, log, exitCode>>
    /\ UNCHANGED <<entry, configFile, dataFiles, settings, orders, x, solver, out>>

\* run() step 4, _set_objective
SetObjective ==
    /\ pc = "objective"
    /\ steps' = Append(steps, "OBJECTIVE")
    /\ model' = set_combined_objective(model, settings.objective_weights, orders, x)
    /\ pc' = "solve"
    /\ UNCHANGED <<entry, configFile, dataFiles, settings, orders, failed, log,
                   exitCode, x, solver, out>>

\* run() step 5, _solve_model
SolveModel ==
    /\ pc = "solve"
    /\ steps' = Append(steps, "SOLVE")
    /\ \E status \in Statuses : \E sol \in SUBSET AllVars(x) :
          /\ SolveOutcome(model, x, status, sol)
          /\ solver' = [status |-> status, sol |-> sol]
    /\ pc' = "report"
    /\ UNCHANGED <<entry, configFile, dataFiles, settings, orders, failed, log,
                   exitCode, x, model, out>>

\* run() step 6, _process_results, and the return to main()
ProcessResults ==
    /\ pc = "report"
    /\ steps' = Append(steps, "REPORT")
    /\ out' = process_and_log_results(solver.status, solver.sol, orders, x,
                                      settings.csv_result_path)
    /\ pc' = "exited"
    /\ exitCode' = 0
    /\ UNCHANGED <<entry, configFile, dataFiles, settings, orders, failed, log,
                   x, model, solver>>

Next ==
    \/ LoadModules
    \/ Main
    \/ DataPipeline
    \/ InitializeModel
    \/ AddConstraints
    \/ SetObjective
    \/ SolveModel
    \/ ProcessResults

Spec == Init /\ [][Next]_vars

-----------------------------------------------------------------------------
(* Properties *)

Active(name) == name \in Range(settings.active_constraints)

\* the CONSTRAINTS step has run to its end
ConstraintsBuilt ==
    /\ pc \in {"objective", "solve", "report", "exited"}
    /\ "CONSTRAINTS" \in Range(steps)
    /\ failed = "none"

\* the decoder has consumed an accepted solution
Decoded == out.decoded /\ AcceptedStatus(solver.status)

Vars(o) == IF o.order_id \in DOMAIN x THEN VarsOf(x[o.order_id], o.order_id) ELSE {}

RowsOf(o) == { i \in 1..Len(out.rows) : out.rows[i].order_id = o.order_id }

\* C1 (uniqueness): with order_unique_assign active, every order with at least
\* one decision variable has an exactly-one constraint over all its variables,
\* exactly one of them is 1 in every accepted solution and the decoder emits
\* exactly one row for it; an order with no variable gets no uniqueness
\* constraint and no row.
C1_Uniqueness ==
    (Active("order_unique_assign") /\ ConstraintsBuilt) =>
        \A o \in Range(orders) :
            /\ Vars(o) # {} =>
                  /\ Vars(o) \in model.exactly_one
                  /\ AcceptedStatus(solver.status) => Cardinality(Vars(o) \cap solver.sol) = 1
                  /\ Decoded => Cardinality(RowsOf(o)) = 1
            /\ Vars(o) = {} =>
                  /\ \A vs \in model.exactly_one : \A v \in vs : v[1] # o.order_id
                  /\ Decoded => RowsOf(o) = {}

C1_Witness ==
    /\ Decoded /\ Active("order_unique_assign")
    /\ \E o \in Range(orders) : Cardinality(Vars(o)) >= 2 /\ Cardinality(RowsOf(o)) = 1
    /\ \E o \in Range(orders) : Vars(o) = {} /\ RowsOf(o) = {}

\* the workload an order places on a process at a factory
Workload(o, fid, proc) ==
    (o.total_process_capacity[proc] * 1000) \div get_efficiency_for_order(o, factory_map[fid])

RECURSIVE SumOver(_, _, _, _)
SumOver(os, fid, proc, acc) ==
    IF os = {} THEN acc
    ELSE LET o == CHOOSE o \in os : TRUE
         IN SumOver(os \ {o}, fid, proc, acc + Workload(o, fid, proc))

\* the orders whose row is at (factory, period) and that need the process
RowOrdersAt(fid, start, proc) ==
    { o \in Range(orders) :
        /\ proc \in DOMAIN o.total_process_capacity
        /\ \E i \in RowsOf(o) : /\ out.rows[i].assigned_factory_id = fid
                                /\ out.rows[i].assigned_period_start = start }

\* the orders with a variable of value 1 at (factory, period) that need the process
SolOrdersAt(fid, start, proc) ==
    { o \in Range(orders) :
        /\ proc \in DOMAIN o.total_process_capacity
        /\ <<o.order_id, fid, start>> \in solver.sol }

\* C2 (capacity respect): with capacity active, in every accepted solution and
\* for every (factory, period, process) with a capacity entry, the floored
\* workloads of the orders assigned there that need the process sum to at most
\* the capacity of the process.
C2_CapacityRespect ==
    (Active("capacity") /\ ConstraintsBuilt /\ AcceptedStatus(solver.status)) =>
        \A f \in Range(Factories) : \A p \in Range(f.capacity_periods) :
            \A proc \in DOMAIN p.capacity_by_process :
                /\ SumOver(SolOrdersAt(f.factory_id, p.start_date, proc), f.factory_id, proc, 0)
                      <= p.capacity_by_process[proc]
                /\ SumOver(RowOrdersAt(f.factory_id, p.start_date, proc), f.factory_id, proc, 0)
                      <= p.capacity_by_process[proc]

\* two orders share a (factory, period) and fill a process exactly, one of them
\* at an efficiency other than 1
C2_Witness ==
    /\ Decoded /\ Active("capacity")
    /\ \E f \in Range(Factories) : \E p \in Range(f.capacity_periods) :
         \E proc \in DOMAIN p.capacity_by_process :
            /\ Cardinality(RowOrdersAt(f.factory_id, p.start_date, proc)) = 2
            /\ SumOver(RowOrdersAt(f.factory_id, p.start_date, proc), f.factory_id, proc, 0)
                  = p.capacity_by_process[proc]
            /\ \E o \in RowOrdersAt(f.factory_id, p.start_date, proc) :
                  get_efficiency_for_order(o, f) # 1000

\* the earliest start date of an order at a factory whose region it lists
EarliestStart(o, fid) ==
    base_date + o.material_purchasing_lead_time
        + o.material_transportation_to_region_lead_time[factory_map[fid].region]
        + o.production_lead_time

\* C3 (lead-time floor): with material_lead_time active, the variables forced
\* to 0 are exactly those whose period starts strictly before base_date +
\* purchasing + transport + production lead time, and every order assigned in
\* an accepted solution starts on or after that date.
C3_LeadTimeFloor ==
    (Active("material_lead_time") /\ ConstraintsBuilt) =>
        /\ model.zeros =
              { v \in AllVars(x) : v[3] < EarliestStart(order_map(orders, v[1]), v[2]) }
        /\ AcceptedStatus(solver.status) =>
              \A v \in solver.sol : v[3] >= EarliestStart(order_map(orders, v[1]), v[2])
        /\ Decoded =>
              \A i \in 1..Len(out.rows) :
                  out.rows[i].assigned_period_start >=
                      EarliestStart(order_map(orders, out.rows[i].order_id),
                                    out.rows[i].assigned_factory_id)

\* an order is assigned to a period that starts on its earliest start date
\* while an earlier period of another factory was forced to 0
C3_Witness ==
    /\ Decoded /\ Active("material_lead_time")
    /\ model.zeros # {}
    /\ \E i \in 1..Len(out.rows) :
          out.rows[i].assigned_period_start =
              EarliestStart(order_map(orders, out.rows[i].order_id),
                            out.rows[i].assigned_factory_id)

\* the orders locked to a factory and to a date inside one of its periods
FullyLocked(o) ==
    /\ o.fixed_assignment.factory_id \in DOMAIN factory_map
    /\ o.fixed_assignment.period_start_date >= 0
    /\ \E p \in Range(factory_map[o.fixed_assignment.factory_id].capacity_periods) :
          /\ p.start_date <= o.fixed_assignment.period_start_date
          /\ o.fixed_assignment.period_start_date <= p.end_date

LockedVar(o) ==
    LET p == CHOOSE p \in Range(factory_map[o.fixed_assignment.factory_id].capacity_periods) :
                /\ p.start_date <= o.fixed_assignment.period_start_date
                /\ o.fixed_assignment.period_start_date <= p.end_date
    IN <<o.order_id, o.fixed_assignment.factory_id, p.start_date>>

\* C4 (lock fidelity): an order locked to a factory and to a date inside one of
\* its periods gets one variable only, at (that factory, the start of the
\* period holding the date), constrained to 1; every accepted solution sets it
\* to 1 and the decoder's row for the order is that pair.
C4_LockFidelity ==
    \A o \in Range(orders) :
        (FullyLocked(o) /\ o.order_id \in DOMAIN x) =>
            /\ Vars(o) = {LockedVar(o)}
            /\ LockedVar(o) \in model.ones
            /\ AcceptedStatus(solver.status) => LockedVar(o) \in solver.sol
            /\ Decoded =>
                  /\ Cardinality(RowsOf(o)) = 1
                  /\ \A i \in RowsOf(o) :
                        /\ out.rows[i].assigned_factory_id = LockedVar(o)[2]
                        /\ out.rows[i].assigned_period_start = LockedVar(o)[3]

\* a locked order is decoded at its pair, the lock date snapped to an earlier
\* start date, with no uniqueness constraint and with an objective
C4_Witness ==
    /\ Decoded /\ ~Active("order_unique_assign") /\ model.objective # {}
    /\ \E o \in Range(orders) :
          /\ FullyLocked(o)
          /\ LockedVar(o)[3] < o.fixed_assignment.period_start_date
          /\ \E i \in RowsOf(o) : out.rows[i].assigned_period_start = LockedVar(o)[3]

\* C5 (eligibility), as claimed: every decision variable of an order is at a
\* factory of the order's validated eligible_factories list.
C5_Eligibility ==
    \A o \in Range(orders) : \A v \in Vars(o) : v[2] \in Range(o.eligible_factories)

\* C6 (missing region), as claimed: when material_lead_time is active and an
\* order has variables at a factory whose region its transport lead times do
\* not list, the CONSTRAINTS step completes and those variables are forced to 0.
C6_MissingRegion ==
    (Active("material_lead_time") /\ "CONSTRAINTS" \in Range(steps)) =>
        \A o \in Range(orders) : \A v \in Vars(o) :
            factory_map[v[2]].region \notin DOMAIN o.material_transportation_to_region_lead_time
                => (failed = "none" /\ v \in model.zeros)

AllSteps == <<"DATA", "MODEL", "CONSTRAINTS", "OBJECTIVE", "SOLVE", "REPORT">>

\* C7 (driver ordering), as claimed: the steps run in the order DATA, MODEL,
\* CONSTRAINTS, OBJECTIVE, SOLVE, REPORT, and a run of the program on a readable
\* configuration in which no step fails has run all six once and has handed the
\* solver's result to the decoder.
C7_DriverOrdering ==
    /\ steps = SubSeq(AllSteps, 1, Len(steps))
    /\ (pc = "exited" /\ configFile = "ok" /\ failed = "none") =>
          (steps = AllSteps /\ out.decoded)

\* C8 (driver abort): once a step has failed the run is over: the failed step
\* is the last one executed, a diagnostic is logged, no step can follow, and
\* neither the solver nor the decoder has been called; when DATA or MODEL
\* failed no constraint or objective builder has touched the model.
C8_DriverAbort ==
    failed # "none" =>
        /\ pc = "exited"
        /\ ~ENABLED Next
        /\ steps # <<>> /\ steps[Len(steps)] = failed
        /\ steps = SubSeq(AllSteps, 1, Len(steps))
        /\ log # <<>>
        /\ solver = NotRun /\ ~out.decoded
        /\ failed \in {"DATA", "MODEL"} => (model = EmptyModel /\ x = <<>>)

C8_Witness == failed = "MODEL" /\ steps = <<"DATA", "MODEL">> /\ pc = "exited"

\* C9 (decoder gating): rows, variable reads, KPIs and the CSV exist only for
\* an OPTIMAL or FEASIBLE status; for any other status the decoder reads no
\* variable, emits no row, computes no KPI and writes no file.
C9_DecoderGating ==
    /\ (out.rows # <<>> \/ out.reads # {} \/ out.kpi_computed \/ out.csv # <<>>)
          => solver.status \in {"OPTIMAL", "FEASIBLE"}
    /\ (out.decoded /\ solver.status \in {"INFEASIBLE", "MODEL_INVALID", "UNKNOWN"})
          => (out.rows = <<>> /\ out.reads = {} /\ ~out.kpi_computed /\ out.csv = <<>>)
    /\ (out.decoded /\ solver.status \in {"OPTIMAL", "FEASIBLE"}) => out.kpi_computed

\* the decoder was called with UNKNOWN on a model that has solutions
C9_Witness ==
    /\ out.decoded /\ solver.status = "UNKNOWN" /\ out.rows = <<>>
    /\ Solutions(model, x) # {{}} /\ Solutions(model, x) # {}

\* C10 (CLI outcome), as claimed: the process ends with status 0 when the
\* pipeline has completed, whatever the solver status, and with a nonzero
\* status when the configuration file is missing or malformed or a data file
\* cannot be read.
C10_CliOutcome ==
    pc = "exited" =>
        /\ "REPORT" \in Range(steps) => exitCode = 0
        /\ (configFile # "ok" \/ dataFiles = "unreadable") => exitCode # 0

\* C11 (duplicate ids), as claimed: when two orders share an order_id,
\* preprocessing fails with a configuration error: the DATA step fails and no
\* variable and no constraint is ever built.
C11_DuplicateIds ==
    (HasDuplicateIds(orders) /\ "DATA" \in Range(steps)) =>
        /\ failed = "DATA"
        /\ x = <<>> /\ model = EmptyModel /\ solver = NotRun

\* the factories of an order's list that exist and offer every process the
\* order needs, in their original relative order
PassingFactories(o) ==
    SelectSeq(o.eligible_factories,
              LAMBDA fid : /\ fid \in DOMAIN factory_map
                           /\ DOMAIN o.total_process_capacity
                                 \subseteq factory_processes(factory_map[fid]))

\* C12 (eligibility pruning), as claimed: when process_data returns, the
\* eligible_factories of every order, an order that needs no process included,
\* is the list of its factories that exist in the factory index and offer all
\* its required processes, in their original relative order.
C12_EligibilityPruning ==
    [][ (pc = "data" /\ pc' = "model") =>
          /\ Len(orders') = Len(orders)
          /\ \A i \in 1..Len(orders) :
                orders'[i].eligible_factories = PassingFactories(orders[i]) ]_vars

\* the (factory, period) pairs of the restricted factory set whose interval
\* contains the locked date
ContainingPairs(o) ==
    UNION { { <<o.order_id, f.factory_id, p.start_date>> :
                p \in { p \in Range(f.capacity_periods) :
                          /\ p.start_date <= o.fixed_assignment.period_start_date
                          /\ o.fixed_assignment.period_start_date <= p.end_date } } :
              f \in Range(LockFactories(o)) }

\* C13 (date snapping), as claimed: for a locked order with a period_start_date
\* the variables created are exactly those at the (factory, period) pairs of
\* the restricted factory set whose interval contains the locked date: none
\* elsewhere, and one at every factory that has such a period.
C13_DateSnapping ==
    ("MODEL" \in Range(steps) /\ failed = "none") =>
        \A o \in Range(orders) :
            (o.fixed_assignment # NoLock /\ o.fixed_assignment.period_start_date >= 0)
                => Vars(o) = ContainingPairs(o)

RemoveAt(os, i) == SubSeq(os, 1, i - 1) \o SubSeq(os, i + 1, Len(os))

\* the lock of the order gives a date that is in no period of its restricted
\* factory set, or that does not parse
Offending(o) == ~LockKeyError(o) /\ LockSkipped(o)

\* C14 (lock error isolation): a locked order whose date is in no period of its
\* restricted factory set, or does not parse, gets no variable and no lock
\* constraint; variable creation does not fail on it; and every other order
\* has exactly the variables it has when the offending order is absent.
C14_LockErrorIsolation ==
    "MODEL" \in Range(steps) =>
        /\ (\A o \in Range(orders) : ~LockKeyError(o)) => failed # "MODEL"
        /\ failed # "MODEL" =>
              \A i \in 1..Len(orders) :
                  Offending(orders[i]) =>
                      /\ orders[i].order_id \in DOMAIN x
                      /\ Vars(orders[i]) = {}
                      /\ \A v \in model.ones : v[1] # orders[i].order_id
                      /\ \A id \in DOMAIN x \ {orders[i].order_id} :
                            x[id] = create_variables(RemoveAt(orders, i))[id]

\* an order with an unparsable lock date sits before an order that got its
\* variables, and the run went on past the MODEL step
C14_Witness ==
    /\ "CONSTRAINTS" \in Range(steps)
    /\ Len(orders) = 2
    /\ Offending(orders[1])
    /\ orders[1].fixed_assignment.period_start_date = BadDate
    /\ Vars(orders[1]) = {}
    /\ Cardinality(Vars(orders[2])) >= 2

\* the model the MODEL, CONSTRAINTS and OBJECTIVE steps build from a list of orders
BuildModel(os) ==
    LET xs == create_variables(os)
        m0 == [EmptyModel EXCEPT !.ones = LockedOnes(os)]
        r == add_constraints(m0, settings.active_constraints, os, xs)
    IN set_combined_objective(r.model, settings.objective_weights, os, xs)

\* order i has no eligible factory left, no lock, and an order_id of its own
Unschedulable(i) ==
    /\ orders[i].eligible_factories = <<>>
    /\ orders[i].fixed_assignment = NoLock
    /\ \A j \in 1..Len(orders) : j # i => orders[j].order_id # orders[i].order_id

\* C15 (unschedulable order): an order with no eligible factory after
\* validation and no lock gets no variable and no uniqueness constraint; no
\* constraint builder raises because of it; under every configured set of
\* constraints and weights the model has the same solutions as the model
\* built without the order; and no schedule row names it.
C15_UnschedulableOrder ==
    \A i \in 1..Len(orders) :
        (Unschedulable(i) /\ "MODEL" \in Range(steps)) =>
            /\ failed # "MODEL" =>
                  (orders[i].order_id \in DOMAIN x /\ Vars(orders[i]) = {})
            /\ {} \notin model.exactly_one
            /\ \A vs \in model.exactly_one : \A v \in vs : v[1] # orders[i].order_id
            /\ failed = "CONSTRAINTS" =>
                  add_constraints([EmptyModel EXCEPT !.ones = LockedOnes(RemoveAt(orders, i))],
                                  settings.active_constraints, RemoveAt(orders, i),
                                  create_variables(RemoveAt(orders, i))).raised
            /\ ("OBJECTIVE" \in Range(steps)) =>
                  Solutions(model, x)
                      = Solutions(BuildModel(RemoveAt(orders, i)),
                                  create_variables(RemoveAt(orders, i)))
            /\ out.decoded => RowsOf(orders[i]) = {}

\* an unschedulable order sits before an order that is decoded, with all three
\* constraints active and all three weights positive
C15_Witness ==
    /\ Decoded /\ Len(orders) = 2 /\ Unschedulable(1)
    /\ Active("order_unique_assign") /\ Active("capacity") /\ Active("material_lead_time")
    /\ \A n \in DOMAIN settings.objective_weights : settings.objective_weights[n] > 0
    /\ RowsOf(orders[2]) # {}

\* C16 (composite objective), as claimed: the expression handed to Minimize is
\* the sum over the sub-objectives of positive weight of weight * rate, the
\* balance cost alone being divided, by S = SCALING_FACTOR; no rate is divided
\* by any further factor.
C16_CompositeObjective ==
    "OBJECTIVE" \in Range(steps) =>
        model.objective =
            { ObjectiveTerm(n, settings.objective_weights[n],
                            IF n = "workload_balance" THEN SCALING_FACTOR ELSE 1) :
                n \in { n \in DOMAIN settings.objective_weights :
                          settings.objective_weights[n] > 0 } }

\* the model as the CONSTRAINTS step left it
ConstraintsModel ==
    add_constraints([EmptyModel EXCEPT !.ones = LockedOnes(orders)],
                    settings.active_constraints, orders, x).model

AuxNamed(names) == { a \in model.aux : a[1] \in names }

\* C17 (pure feasibility): with all three weights zero set_combined_objective
\* leaves the model as it was: no objective, no auxiliary variable, no
\* constraint; and each sub-objective builder has added its auxiliary
\* variables, its constraints and its term exactly when its own weight is
\* strictly positive.
C17_PureFeasibility ==
    "OBJECTIVE" \in Range(steps) =>
        LET w == settings.objective_weights
        IN /\ (\A n \in DOMAIN w : w[n] <= 0) => model = ConstraintsModel
           /\ IF w.tardiness > 0
              THEN /\ AuxNamed({"is_tardy"}) = TardinessAux(orders)
                   /\ \E t \in model.objective : t.name = "tardiness"
              ELSE /\ AuxNamed({"is_tardy"}) = {} /\ model.tardy = {}
                   /\ \A t \in model.objective : t.name # "tardiness"
           /\ IF w.jit_deviation > 0
              THEN /\ AuxNamed({"earliness_days", "tardiness_days", "max_earliness_days",
                                "max_tardiness_days"}) = JitAux(orders)
                   /\ \E t \in model.objective : t.name = "jit_deviation"
              ELSE /\ AuxNamed({"earliness_days", "tardiness_days", "max_earliness_days",
                                "max_tardiness_days"}) = {}
                   /\ model.jit = {} /\ model.jit_zero = {}
                   /\ \A t \in model.objective : t.name # "jit_deviation"
           /\ IF w.workload_balance > 0
              THEN /\ AuxNamed({"max_load_ratio_scaled", "min_load_ratio_scaled", "is_used"})
                          = BalanceAux(orders, x)
                   /\ \E t \in model.objective : t.name = "workload_balance"
              ELSE /\ AuxNamed({"max_load_ratio_scaled", "min_load_ratio_scaled", "is_used"}) = {}
                   /\ model.balance = {}
                   /\ \A t \in model.objective : t.name # "workload_balance"
           /\ [model EXCEPT !.aux = {}, !.tardy = {}, !.jit = {}, !.jit_zero = {},
                            !.balance = {}, !.objective = {}] = ConstraintsModel

\* only the tardiness weight is positive, on a model with constraints on its
\* decision variables: the tardiness builder alone has run
C17_Witness ==
    /\ "OBJECTIVE" \in Range(steps)
    /\ settings.objective_weights.tardiness > 0
    /\ settings.objective_weights.jit_deviation = 0
    /\ settings.objective_weights.workload_balance = 0
    /\ model.tardy # {} /\ model.capacity # {} /\ model.exactly_one # {}
    /\ model.aux = TardinessAux(orders)

\* the constraint builders CONSTRAINT_MAP knows, in the configured order
KnownBuilders == SelectSeq(settings.active_constraints, LAMBDA n : n \in ConstraintNames)

\* the variables of an unlocked order: its eligible factories that exist, in
\* list order, each with its periods in list order
LatticeEntries(o) ==
    LET fs == SelectSeq(o.eligible_factories, LAMBDA fid : fid \in DOMAIN factory_map)
    IN [k \in 1..Len(fs) |->
          [f |-> fs[k],
           ps |-> [j \in 1..Len(factory_map[fs[k]].capacity_periods) |->
                     factory_map[fs[k]].capacity_periods[j].start_date]]]

RECURSIVE TrueWorkloadSum(_, _, _)
TrueWorkloadSum(terms, f, proc) ==
    IF terms = {} THEN <<0, 1>>
    ELSE LET t == CHOOSE t \in terms : TRUE
             rest == TrueWorkloadSum(terms \ {t}, f, proc)
             base == orders[t[3]].total_process_capacity[proc]
             eff == get_efficiency_for_order(orders[t[3]], f)
         IN << base * 1000 * rest[2] + rest[1] * eff, eff * rest[2] >>

\* C19 (conservative rounding), as claimed: the integer workload of every
\* capacity term is at least the true workload base_workload / efficiency, and
\* in every accepted solution the true workloads of the orders assigned to a
\* (factory, period, process) sum to at most the capacity of the process.
C19_ConservativeRounding ==
    (Active("capacity") /\ ConstraintsBuilt) =>
        \A c \in model.capacity :
            /\ \A t \in c.terms :
                  t[2] * get_efficiency_for_order(orders[t[3]], factory_map[c.f])
                      >= orders[t[3]].total_process_capacity[c.proc] * 1000
            /\ AcceptedStatus(solver.status) =>
                  LET assigned == { t \in c.terms : t[1] \in solver.sol }
                      total == TrueWorkloadSum(assigned, factory_map[c.f], c.proc)
                  IN total[1] <= c.cap * total[2]

\* the sum over the order's processes of the per-process workloads the
\* capacity constraint uses at a factory
PerProcessWorkloadSum(o, f) ==
    SumFn([proc \in DOMAIN o.total_process_capacity |->
              ActualWorkload(o.total_process_capacity[proc], get_efficiency_for_order(o, f))],
          DOMAIN o.total_process_capacity)

\* C20 (aggregate workload consistency), as claimed: for every order and
\* factory the aggregate workload of the balance objective and of the KPI,
\* floor(order_total_base_workload / efficiency), equals the sum over the
\* order's processes of the workloads floor(base_workload / efficiency) of the
\* capacity constraint.
C20_AggregateWorkloadConsistency ==
    ("DATA" \in Range(steps) /\ failed # "DATA") =>
        \A o \in Range(orders) : \A f \in Range(Factories) :
            ActualWorkload(order_total_base_workload(o), get_efficiency_for_order(o, f))
                = PerProcessWorkloadSum(o, f)

\* floor(order_total_base_workload / efficiency) of the order of a row
RowWorkload(row) ==
    ActualWorkload(order_total_base_workload(order_map(orders, row.order_id)),
                   get_efficiency_for_order(order_map(orders, row.order_id),
                                            factory_map[row.assigned_factory_id]))

RECURSIVE RowWorkloadAt(_, _, _)
RowWorkloadAt(rows, fid, start) ==
    IF rows = <<>> THEN 0
    ELSE (IF Head(rows).assigned_factory_id = fid /\ Head(rows).assigned_period_start = start
          THEN RowWorkload(Head(rows)) ELSE 0) + RowWorkloadAt(Tail(rows), fid, start)

\* the workload W the balance objective's constraints see at (factory, period)
BalanceWorkload(fid, start) == SumTerms(BalanceTerms(orders, x, fid, start), solver.sol)

\* C21 (KPI round-trip), as claimed: for every (factory, period) of positive
\* total capacity the KPI's load rate is the sum of floor(total base workload /
\* efficiency) over the rows decoded there, over the sum of the period's
\* per-process capacities, and that assigned workload is the workload W the
\* balance objective constrains there.
C21_KpiRoundTrip ==
    (Decoded /\ out.kpi_computed) =>
        \A k \in PeriodKeys :
            factory_total_capacity_by_period(k[1], k[2]) > 0 =>
                /\ out.kpi[k].assigned_workload = RowWorkloadAt(out.rows, k[1], k[2])
                /\ out.kpi[k].total_capacity = factory_total_capacity_by_period(k[1], k[2])
                /\ settings.objective_weights.workload_balance > 0 =>
                      out.kpi[k].assigned_workload = BalanceWorkload(k[1], k[2])

\* the end date of the period of a factory that starts on a date, read from
\* the factory's own capacity_periods
PeriodEndOf(fid, start) ==
    LET ps == factory_map[fid].capacity_periods
    IN ps[CHOOSE i \in 1..Len(ps) : ps[i].start_date = start].end_date

PeriodCapacityOf(fid, start) ==
    LET ps == factory_map[fid].capacity_periods
    IN ps[CHOOSE i \in 1..Len(ps) : ps[i].start_date = start].capacity_by_process

\* C27 (process availability in the assigned period), as claimed: with the
\* capacity constraint active, every order of an accepted solution is assigned
\* to a (factory, period) whose capacity_by_process has an entry for every
\* process the order requires.
C27_ProcessAvailability ==
    (Decoded /\ Active("capacity")) =>
        \A i \in 1..Len(out.rows) :
            LET r == out.rows[i]
                o == order_map(orders, r.order_id)
            IN DOMAIN o.total_process_capacity \subseteq
                   DOMAIN PeriodCapacityOf(r.assigned_factory_id, r.assigned_period_start)

\* C28 (load rate bound), as claimed: with the capacity constraint active, at
\* every (factory, period) with positive total capacity the assigned workload
\* the KPI step reports is at most the total capacity of the period.
C28_LoadRateBound ==
    (Decoded /\ out.kpi_computed /\ Active("capacity")) =>
        \A k \in PeriodKeys :
            out.kpi[k].total_capacity > 0 =>
                out.kpi[k].assigned_workload <= out.kpi[k].total_capacity

\* C29 (confirmation date not in the past): with the material_lead_time
\* constraint active, every schedule row has latest_confirmation_date on or
\* after base_date, and material_ready_date on or after base_date + purchasing
\* lead time + transport lead time to the region of the assigned factory.
C29_ConfirmationNotInPast ==
    (Decoded /\ Active("material_lead_time")) =>
        \A i \in 1..Len(out.rows) :
            LET r == out.rows[i]
                o == order_map(orders, r.order_id)
                region == factory_map[r.assigned_factory_id].region
                transport == o.material_transportation_to_region_lead_time
            IN /\ r.latest_confirmation_date >= base_date
               /\ region \in DOMAIN transport
               /\ r.material_ready_date >=
                      base_date + o.material_purchasing_lead_time + transport[region]

\* a row whose confirmation date is base_date itself, and a row of an order
\* with a long purchasing lead time, under the material_lead_time constraint
C29_Witness ==
    /\ Decoded /\ Active("material_lead_time")
    /\ \E i \in 1..Len(out.rows) : out.rows[i].latest_confirmation_date = base_date
    /\ \E i \in 1..Len(out.rows) :
          order_map(orders, out.rows[i].order_id).material_purchasing_lead_time = MaxPurchasingLT

\* C30 (invalid lock factory isolation), as claimed: when the lock of an order
\* names a factory that the input does not hold, variable creation still
\* completes: the MODEL step does not fail, the order has no variable, and
\* every other order has the variables it has when that order is absent.
C30_InvalidLockFactoryIsolation ==
    "MODEL" \in Range(steps) =>
        \A i \in 1..Len(orders) :
            LockKeyError(orders[i]) =>
                /\ failed # "MODEL"
                /\ orders[i].order_id \in DOMAIN x
                /\ Vars(orders[i]) = {}
                /\ \A id \in DOMAIN x \ {orders[i].order_id} :
                      x[id] = create_variables(RemoveAt(orders, i))[id]

\* C26 (objectives do not cut feasibility), as claimed: once the objective is
\* set, every assignment of the decision variables that satisfies the active
\* constraints extends to values of the auxiliary variables that satisfy every
\* constraint of the objective builders, i.e. still satisfies the whole model.
C26_ObjectivesKeepFeasibility ==
    ("OBJECTIVE" \in Range(steps) /\ failed = "none") =>
        \A sol \in SUBSET AllVars(x) :
            Satisfies(ConstraintsModel, sol) => Satisfies(model, sol)

-----------------------------------------------------------------------------
(* The values of the auxiliary variables of the objective builders, and   *)
(* the value of the expression handed to Minimize. Each auxiliary         *)
(* variable ranges over a grid that holds its least (greatest) feasible    *)
(* value and the MaxSlack values next to it; the constraints of the        *)
(* builders select among them.                                             *)

MinOf(S) == CHOOSE n \in S : \A k \in S : n <= k

MaxOf(S) == CHOOSE n \in S : \A k \in S : n >= k

HasObjective(m, name) == \E t \in m.objective : t.name = name

\* the weight of a sub-objective in the sum handed to Minimize (0: not built)
Weight(m, name) ==
    IF HasObjective(m, name)
    THEN (CHOOSE t \in m.objective : t.name = name).weight ELSE 0

\* the orders whose is_tardy variable goes to firm_tardy_vars (order_type == 1)
\* or to forecast_tardy_vars (every other order)
OrdersOfType(os, firm) == { i \in 1..Len(os) : (os[i].order_type = 1) <=> firm }

\* tardiness_rate_terms: weight * (1 / count) * sum(vars), one term per class
\* that has at least one order
tardiness_rate_terms(os) ==
    { t \in { [vars |-> OrdersOfType(os, TRUE), weight |-> firm_tardy_weight],
              [vars |-> OrdersOfType(os, FALSE), weight |-> forecast_tardy_weight] } :
        Cardinality(t.vars) > 0 }

\* the product of the class counts: the common denominator of the rate
ClassProduct(os) ==
    LET n(firm) == Cardinality(OrdersOfType(os, firm))
    IN (IF n(TRUE) > 0 THEN n(TRUE) ELSE 1) * (IF n(FALSE) > 0 THEN n(FALSE) ELSE 1)

\* is_tardy: one BoolVar per order, is_tardy_var >= var for the late periods
IsTardyValues(m, os, sol) ==
    IF ~HasObjective(m, "tardiness") THEN { <<>> }
    ELSE { t \in [1..Len(os) -> {0, 1}] : \A c \in m.tardy : c[2] \in sol => t[c[1]] >= 1 }

\* tardiness_rate_expr * 10 * ClassProduct
TardyCost(os, t) ==
    IF t = <<>> THEN 0
    ELSE LET terms == tardiness_rate_terms(os)
             part == [r \in terms |->
                        r.weight * SumFn(t, r.vars) * (ClassProduct(os) \div Cardinality(r.vars))]
         IN SumFn(part, terms)

\* planned_completion_days - due_date_days of one order
Deviation(j, sol) == SumTerms(j.terms, sol) - j.due

\* earliness_var of an order with variables: in 0..horizon, and with
\* tardiness_var = earliness_var + deviation in 0..horizon
EarlinessValues(j, sol) ==
    { e \in (0..MaxSlack) \cup { k - Deviation(j, sol) : k \in 0..MaxSlack } :
        e \in 0..horizon /\ e + Deviation(j, sol) \in 0..horizon }

NoJit == [E |-> <<>>, T |-> <<>>, maxE |-> 0, maxT |-> 0]

\* earliness and tardiness of every order, and their maxima (AddMaxEquality);
\* the orders without variables have both fixed to 0
JitValues(m, sol) ==
    IF ~HasObjective(m, "jit_deviation") THEN { NoJit }
    ELSE LET d == [j \in m.jit |-> Deviation(j, sol)]
             vals == [j \in m.jit |-> EarlinessValues(j, sol)]
             Es == { E \in [m.jit -> UNION { vals[j] : j \in m.jit }] :
                        \A j \in m.jit : E[j] \in vals[j] }
         IN { [E |-> E,
               T |-> [j \in m.jit |-> E[j] + d[j]],
               maxE |-> MaxOf({0} \cup { E[j] : j \in m.jit }),
               maxT |-> MaxOf({0} \cup { E[j] + d[j] : j \in m.jit })] :
                E \in Es }

\* jit_rate_expr * 10 * allowed_earliness_deviation * allowed_tardiness_deviation
JitCost(j) ==
    earliness_weight * j.maxE * allowed_tardiness_deviation
        + lateness_weight * j.maxT * allowed_earliness_deviation

BalanceKeys(m) == { <<c.f, c.p>> : c \in m.balance }

\* is_used: total_workload > 0 if used, total_workload == 0 if not used
UsedValues(m, sol) ==
    { u \in [BalanceKeys(m) -> BOOLEAN] :
        \A c \in m.balance :
            /\ u[<<c.f, c.p>>] => SumTerms(c.terms, sol) > 0
            /\ ~u[<<c.f, c.p>>] => SumTerms(c.terms, sol) = 0 }

\* the values tried for the two load ratios: the ratios of the periods and
\* the MaxSlack values above each, within the domain 0..2 * SCALING_FACTOR
RatioGrid(m, sol) ==
    ({0} \cup { (SumTerms(c.terms, sol) * SCALING_FACTOR) \div c.cap + k :
                  c \in m.balance, k \in 0..MaxSlack })
        \cap (0..(2 * SCALING_FACTOR))

NoBalance == [used |-> <<>>, minR |-> 0, maxR |-> 0]

\* a builder whose lower-bound coupling holds for every period, used or not
BalanceValuesUnconditional(m, sol) ==
    IF ~HasObjective(m, "workload_balance") THEN { NoBalance }
    ELSE LET w == [c \in m.balance |-> SumTerms(c.terms, sol) * SCALING_FACTOR]
             grid == RatioGrid(m, sol)
         IN { b \in [used : UsedValues(m, sol), minR : grid, maxR : grid] :
                /\ b.minR <= b.maxR
                /\ \A c \in m.balance :
                      /\ b.maxR * c.cap >= w[c]
                      /\ b.minR * c.cap <= w[c] }

\* min <= max; max * capacity >= workload * SCALING_FACTOR for every period;
\* min * capacity <= workload * SCALING_FACTOR only if the period is used
BalanceValues(m, sol) ==
    IF ~HasObjective(m, "workload_balance") THEN { NoBalance }
    ELSE LET w == [c \in m.balance |-> SumTerms(c.terms, sol) * SCALING_FACTOR]
             grid == RatioGrid(m, sol)
         IN { b \in [used : UsedValues(m, sol), minR : grid, maxR : grid] :
                /\ b.minR <= b.maxR
                /\ \A c \in m.balance :
                      /\ b.maxR * c.cap >= w[c]
                      /\ b.used[<<c.f, c.p>>] => b.minR * c.cap <= w[c] }

\* combined_balance_cost * 2: 0.5 * (max - min) + 0.5 * max
BalanceCost(b) == 2 * b.maxR - b.minR

\* the least value of the minimized sum over the auxiliary values of one
\* assignment, times 10 * ClassProduct * total_orders * the three allowed
\* deviations (the sub-objectives share no auxiliary variable, so the least
\* sum is the sum of the least parts)
SolutionCost(m, os, sol) ==
    Weight(m, "tardiness")
        * MinOf({ TardyCost(os, t) : t \in IsTardyValues(m, os, sol) })
        * (allowed_earliness_deviation * allowed_tardiness_deviation * allowed_deviation)
    + Weight(m, "jit_deviation")
        * MinOf({ JitCost(j) : j \in JitValues(m, sol) })
        * ClassProduct(os)
    + Weight(m, "workload_balance")
        * MinOf({ BalanceCost(b) : b \in BalanceValues(m, sol) })
        * ((10 * allowed_earliness_deviation * allowed_tardiness_deviation * allowed_deviation)
              \div (2 * SCALING_FACTOR))
        * ClassProduct(os) * Len(os)

\* the auxiliary values of an optimal solution with the assignment sol
BestAux(m, os, sol) ==
    LET ts == IsTardyValues(m, os, sol)
        js == JitValues(m, sol)
        bs == BalanceValues(m, sol)
    IN [is_tardy : { t \in ts : TardyCost(os, t) = MinOf({ TardyCost(os, k) : k \in ts }) },
        jit : { j \in js : JitCost(j) = MinOf({ JitCost(k) : k \in js }) },
        balance : { b \in bs : BalanceCost(b) = MinOf({ BalanceCost(k) : k \in bs }) }]

NoAux == [is_tardy |-> <<>>, jit |-> NoJit, balance |-> NoBalance]

\* SATSolver.solve when the search runs to its end: OPTIMAL with an assignment
\* and auxiliary values of least objective value, INFEASIBLE when there is no
\* solution
SolveToOptimality ==
    /\ pc = "solve"
    /\ steps' = Append(steps, "SOLVE")
    /\ LET sols == Solutions(model, x)
           cost == [s \in sols |-> SolutionCost(model, orders, s)]
       IN IF sols = {}
          THEN solver' = [status |-> "INFEASIBLE", sol |-> {}, aux |-> NoAux]
          ELSE \E sol \in sols :
                  /\ cost[sol] = MinOf({ cost[s] : s \in sols })
                  /\ \E a \in BestAux(model, orders, sol) :
                        solver' = [status |-> "OPTIMAL", sol |-> sol, aux |-> a]
    /\ pc' = "report"
    /\ UNCHANGED <<entry, configFile, dataFiles, settings, orders, failed, log,
                   exitCode, x, model, out>>

\* the inputs of the runs that end with a proven optimum: one or two orders
\* without locks with uniqueness (and capacity) active, or one order and no
\* constraint, and at least one positive objective weight
OptimalFirstOrders ==
    { MakeOrder("O1", 1, 24, e, NoLock, <<0, TransportAll>>, s) :
        e \in { <<"F1", "F2">>, <<"F1">>, <<"F3">>, <<>> },
        s \in { <<800, ("sew" :> MaxWorkload)>>, <<2000, ("sew" :> 1)>> } }

OptimalSecondOrders ==
    { MakeOrder("O2", t, 19, e, NoLock, <<0, TransportAll>>, <<800, ("sew" :> MaxWorkload)>>) :
        t \in {0, 1}, e \in { <<"F1", "F2">>, <<"F1">>, <<"F3">> } }

OptimalActiveChoices ==
    { <<"order_unique_assign">>, <<"order_unique_assign", "capacity">>, <<>> }

OptimalWeightChoices ==
    { w \in WeightChoices : \E n \in DOMAIN w : w[n] > 0 }
        \cup { [tardiness |-> 0, jit_deviation |-> 3, workload_balance |-> 0] }

OptimalInit ==
    /\ entry = "pipeline"
    /\ configFile = "ok"
    /\ dataFiles = "ok"
    /\ settings \in [active_constraints : OptimalActiveChoices,
                     objective_weights : OptimalWeightChoices,
                     csv_result_path : {TRUE}]
    /\ \E o1 \in OptimalFirstOrders :
          \E rest \in {<<>>} \cup { <<o2>> : o2 \in OptimalSecondOrders } :
             orders = <<o1>> \o rest
    /\ settings.active_constraints = <<>> => Len(orders) = 1
    /\ pc = "main"
    /\ steps = <<>>
    /\ failed = "none"
    /\ log = <<>>
    /\ exitCode = -1
    /\ x = <<>>
    /\ model = EmptyModel
    /\ solver = NotRun
    /\ out = NoOutput

OptimalNext ==
    \/ Main
    \/ DataPipeline
    \/ InitializeModel
    \/ AddConstraints
    \/ SetObjective
    \/ SolveToOptimality
    \/ ProcessResults

OptimalSpec == OptimalInit /\ [][OptimalNext]_vars

-----------------------------------------------------------------------------
(* Properties of the optimal solutions *)

Optimal == solver.status = "OPTIMAL"

\* the order i is assigned to a period that ends strictly after its due date
AssignedLate(i) ==
    \E v \in solver.sol :
        /\ v[1] = orders[i].order_id
        /\ PeriodEndOf(v[2], v[3]) > orders[i].due_date

\* C22 (tardiness indicator): with a positive tardiness weight and uniqueness
\* active, in every optimal solution is_tardy of an order is 1 exactly when
\* the period assigned to the order ends strictly after its due date; the firm
\* term of the rate sums the orders with order_type = 1, the forecast term all
\* the others, and a class without orders has no term (no division by zero).
C22_TardinessIndicator ==
    (Optimal /\ settings.objective_weights.tardiness > 0
             /\ Active("order_unique_assign")) =>
        /\ \A i \in 1..Len(orders) : solver.aux.is_tardy[i] = 1 <=> AssignedLate(i)
        /\ \A t \in tardiness_rate_terms(orders) :
              /\ Cardinality(t.vars) > 0
              /\ t.weight = firm_tardy_weight =>
                    t.vars = { i \in 1..Len(orders) : orders[i].order_type = 1 }
              /\ t.weight = forecast_tardy_weight =>
                    t.vars = { i \in 1..Len(orders) : orders[i].order_type # 1 }
        /\ \A i \in 1..Len(orders) : \E t \in tardiness_rate_terms(orders) : i \in t.vars
        /\ (\A i \in 1..Len(orders) : orders[i].order_type = 1) =>
              \A t \in tardiness_rate_terms(orders) : t.weight = firm_tardy_weight

\* two firm orders (the forecast class is empty): one is tardy in the optimum,
\* the other sits in a period that ends on its due date and is not tardy
C22_Witness ==
    /\ Optimal /\ settings.objective_weights.tardiness > 0
    /\ Active("order_unique_assign")
    /\ Len(orders) = 2
    /\ \A i \in 1..2 : orders[i].order_type = 1
    /\ \E i, j \in 1..2 :
          /\ solver.aux.is_tardy[i] = 1
          /\ solver.aux.is_tardy[j] = 0
          /\ \E v \in solver.sol :
                v[1] = orders[j].order_id /\ PeriodEndOf(v[2], v[3]) = orders[j].due_date

\* completion day - due day of the order i in the solution (0 for an order
\* that is not assigned)
Lateness(i) ==
    LET vs == { v \in solver.sol : v[1] = orders[i].order_id }
    IN IF vs = {} THEN 0
       ELSE LET v == CHOOSE v \in vs : TRUE
            IN PeriodEndOf(v[2], v[3]) - orders[i].due_date

\* every order is assigned by sol to a period that ends delta days after its
\* due date
AllFinish(sol, delta) ==
    \A i \in 1..Len(orders) :
        \E v \in sol : /\ v[1] = orders[i].order_id
                       /\ PeriodEndOf(v[2], v[3]) - orders[i].due_date = delta

JitOnly ==
    /\ settings.objective_weights.jit_deviation > 0
    /\ settings.objective_weights.tardiness = 0
    /\ settings.objective_weights.workload_balance = 0

\* C23 (JIT deviation): with a positive JIT weight and uniqueness active, in
\* every optimal solution max_earliness_days is the largest over the orders of
\* max(0, due day - completion day) and max_tardiness_days the largest of
\* max(0, completion day - due day), an order without variables counting 0 in
\* both; and when JIT is the only weighted objective, an assignment that
\* finishes every order 15 days late is not optimal when one that finishes
\* every order 15 days early is feasible.
C23_JitDeviation ==
    (Optimal /\ settings.objective_weights.jit_deviation > 0
             /\ Active("order_unique_assign")) =>
        /\ solver.aux.jit.maxE =
               MaxOf({0} \cup { -Lateness(i) : i \in 1..Len(orders) })
        /\ solver.aux.jit.maxT =
               MaxOf({0} \cup { Lateness(i) : i \in 1..Len(orders) })
        /\ (JitOnly /\ \E s \in Solutions(model, x) : AllFinish(s, -15)) =>
               ~AllFinish(solver.sol, 15)

\* JIT is the only weighted objective and the order has a period ending 15
\* days before and one ending 15 days after its due date: the optimum takes
\* the early one, with max_earliness_days 15 and max_tardiness_days 0
C23_Witness ==
    /\ Optimal /\ JitOnly /\ Active("order_unique_assign")
    /\ \E s \in Solutions(model, x) : AllFinish(s, 15)
    /\ AllFinish(solver.sol, -15)
    /\ solver.aux.jit.maxE = 15
    /\ solver.aux.jit.maxT = 0

\* the workload of a (factory, period) of the balance objective in the solution
WorkloadOf(c) == SumTerms(c.terms, solver.sol)

\* the (factory, period) pairs that carry work in the solution
UsedPeriods == { c \in model.balance : WorkloadOf(c) > 0 }

\* C24 (workload balance coupling): every (factory, period) of positive total
\* capacity with a candidate variable is coupled; in every optimal solution
\* with a positive balance weight is_used is 1 exactly when its workload W is
\* positive, max_load_ratio_scaled * C >= W * S holds for every such period,
\* min_load_ratio_scaled * C <= W * S for the used ones, and
\* min_load_ratio_scaled is the least load ratio of the used periods (capped
\* by max_load_ratio_scaled): a period with W = 0 does not force it to 0.
C24_BalanceCoupling ==
    (Optimal /\ settings.objective_weights.workload_balance > 0) =>
        /\ \A k \in PeriodKeys :
              (factory_total_capacity_by_period(k[1], k[2]) > 0
                  /\ \E v \in AllVars(x) : v[2] = k[1] /\ v[3] = k[2])
                 => k \in BalanceKeys(model)
        /\ \A c \in model.balance :
              /\ solver.aux.balance.used[<<c.f, c.p>>] <=> WorkloadOf(c) > 0
              /\ solver.aux.balance.maxR * c.cap >= WorkloadOf(c) * SCALING_FACTOR
              /\ solver.aux.balance.used[<<c.f, c.p>>] =>
                    solver.aux.balance.minR * c.cap <= WorkloadOf(c) * SCALING_FACTOR
        /\ solver.aux.balance.minR =
               MinOf({ solver.aux.balance.maxR } \cup
                     { (WorkloadOf(c) * SCALING_FACTOR) \div c.cap : c \in UsedPeriods })

\* an optimum with a used period and a period without work, and a positive
\* min_load_ratio_scaled that is below max_load_ratio_scaled
C24_Witness ==
    /\ Optimal /\ settings.objective_weights.workload_balance > 0
    /\ \E c, d \in model.balance :
          /\ WorkloadOf(c) > 0 /\ solver.aux.balance.used[<<c.f, c.p>>]
          /\ WorkloadOf(d) = 0 /\ ~solver.aux.balance.used[<<d.f, d.p>>]
    /\ solver.aux.balance.minR > 0
    /\ solver.aux.balance.minR < solver.aux.balance.maxR

====
